---- MODULE Spec2Model ----
(***************************************************************************)
(* A model of lc_agent/knowledge_base.py: the KnowledgeBase collection     *)
(* (a FAISS vector store persisted under its kb_path), the                 *)
(* KnowledgeBaseManager registry, the process-wide _kb_manager singleton   *)
(* and the search_diagnosis_knowledge facade.                              *)
(*                                                                         *)
(* Abstractions.  A string that the code inspects character by character   *)
(* (expert_type) is a sequence of one-character strings; a string the code *)
(* only stores and prints (a text, a query, a kb_name) is a TLA+ string.   *)
(* An embedding is a one-dimensional integer vector and the index distance *)
(* is the squared L2 distance, as FAISS's flat index reports it.           *)
(* score_threshold is given in tenths, so that                             *)
(* (1.0 - score_threshold) * 10 is the integer 10 - tenths.                *)
(* The embedding model is one that loaded (SimpleEmbeddings.embedder set): *)
(* a fixed map from texts to vectors.  FAISS is what its documented        *)
(* behaviour says: add appends, delete removes, save_local/load_local      *)
(* round-trip, the search gives the k nearest, nearest first.              *)
(* init_sample_knowledge and the __main__ block only compose the calls     *)
(* modelled here (get_kb_manager, get_or_create_kb, add_texts, save,       *)
(* search_diagnosis_knowledge) and have no action of their own.            *)
(***************************************************************************)
EXTENDS Integers, Sequences, FiniteSets, TLC

(***************************************************************************)
(* Bounds of the model.                                                    *)
(***************************************************************************)
\* the documents held by all collections together (in memory)
MaxTotalDocs == 2
\* the largest top_k a search is called with
MaxTopK == 2

(***************************************************************************)
(* Names.                                                                  *)
(***************************************************************************)
\* default_kbs, in the order of the list
default_kbs == <<"NameNodeExpert", "DataNodeExpert", "YARNExpert",
                 "HistoryCases", "HadoopDocs">>

DefaultNames == {default_kbs[i] : i \in 1..Len(default_kbs)}

\* a name that is not a default one
ExtraNames == {"Custom"}

KbNames == DefaultNames \cup ExtraNames

\* Python's None, where a string is expected
None == "<None>"

(***************************************************************************)
(* Character strings: str.lower() and the `in` containment test.           *)
(***************************************************************************)
LowerChar(c) ==
    CASE c = "A" -> "a" [] c = "D" -> "d" [] c = "E" -> "e" [] c = "L" -> "l"
      [] c = "M" -> "m" [] c = "N" -> "n" [] c = "O" -> "o" [] c = "R" -> "r"
      [] c = "Y" -> "y" [] OTHER -> c

Lower(s) == [i \in 1..Len(s) |-> LowerChar(s[i])]

\* sub in s
Contains(s, sub) ==
    \E i \in 1..(Len(s) - Len(sub) + 1) : SubSeq(s, i, i + Len(sub) - 1) = sub

S_namenode == <<"n", "a", "m", "e", "n", "o", "d", "e">>
S_nn       == <<"n", "n">>
S_datanode == <<"d", "a", "t", "a", "n", "o", "d", "e">>
S_dn       == <<"d", "n">>
S_yarn     == <<"y", "a", "r", "n">>
S_all      == <<"a", "l", "l">>

(***************************************************************************)
(* KnowledgeBaseManager.match_knowledge_base                               *)
(***************************************************************************)
\* a variant that tests the datanode rule before the namenode rule
match_swapped_rules(expert_type) ==
    LET expert_type_lower == Lower(expert_type)
    IN  IF Contains(expert_type_lower, S_datanode) \/ Contains(expert_type_lower, S_dn)
        THEN "DataNodeExpert"
        ELSE IF Contains(expert_type_lower, S_namenode) \/ Contains(expert_type_lower, S_nn)
        THEN "NameNodeExpert"
        ELSE IF Contains(expert_type_lower, S_yarn)
        THEN "YARNExpert"
        ELSE "HistoryCases"

match_knowledge_base(expert_type) ==
    LET expert_type_lower == Lower(expert_type)
    IN  IF Contains(expert_type_lower, S_namenode) \/ Contains(expert_type_lower, S_nn)
        THEN "NameNodeExpert"
        ELSE IF Contains(expert_type_lower, S_datanode) \/ Contains(expert_type_lower, S_dn)
        THEN "DataNodeExpert"
        ELSE IF Contains(expert_type_lower, S_yarn)
        THEN "YARNExpert"
        ELSE "HistoryCases"

(***************************************************************************)
(* Documents, embeddings and the vector store.                             *)
(***************************************************************************)
\* the queries searched for; the texts of the documents are "a" and "b"
Queries == {"a", "c"}

\* the text FAISS.from_texts is seeded with
Placeholder == "init"

EmptyMeta == [k \in {} |-> ""]

FullMeta == [source |-> "docs", desc |-> "startup"]

Document(text, metadata) == [page_content |-> text, metadata |-> metadata]

\* the documents the collections are fed with
Documents == {Document("a", EmptyMeta), Document("b", FullMeta)}

\* SimpleEmbeddings.embed_query / embed_documents with a loaded model: a
\* deterministic map from a text to its vector
Embed(text) ==
    CASE text = "a" -> 0 [] text = "b" -> 2 [] text = "c" -> 3 [] OTHER -> 5

\* the squared L2 distance of the flat index
Distance(query, text) == (Embed(query) - Embed(text)) * (Embed(query) - Embed(text))

\* self.vector_store = None
NoneStore == [isNone |-> TRUE, docs |-> <<>>, ntotal |-> 0]

\* a variant that puts the new documents in front of the old ones
StoreAddFront(store, documents) ==
    [isNone |-> FALSE, docs |-> documents \o store.docs,
     ntotal |-> store.ntotal + Len(documents)]

\* FAISS.add_documents / from_texts: one vector and one docstore entry for
\* each document, in input order
StoreAdd(store, documents) ==
    [isNone |-> FALSE, docs |-> store.docs \o documents,
     ntotal |-> store.ntotal + Len(documents)]

\* an index that holds nothing
EmptyStore == [isNone |-> FALSE, docs |-> <<>>, ntotal |-> 0]

\* FAISS.from_texts(texts, embeddings)
FromTexts(texts) ==
    StoreAdd(EmptyStore,
             [i \in 1..Len(texts) |-> Document(texts[i], EmptyMeta)])

RECURSIVE RemoveAt(_, _, _)
RemoveAt(docs, positions, i) ==
    IF i > Len(docs) THEN <<>>
    ELSE (IF i \in positions THEN <<>> ELSE <<docs[i]>>) \o RemoveAt(docs, positions, i + 1)

\* FAISS.delete(ids): the vectors and the docstore entries at these positions
StoreDelete(store, positions) ==
    [isNone |-> FALSE, docs |-> RemoveAt(store.docs, positions, 1),
     ntotal |-> store.ntotal - Cardinality(positions \cap (1..Len(store.docs)))]

(***************************************************************************)
(* The storage path <kb_path>/vector_store of one collection.              *)
(*   missing : the directory does not exist                                *)
(*   empty   : the directory exists and os.listdir gives nothing           *)
(*   corrupt : the directory holds files FAISS.load_local cannot read      *)
(*   saved   : the directory holds what save_local wrote                   *)
(***************************************************************************)
MissingDir == [kind |-> "missing", docs |-> <<>>, ntotal |-> 0]

EmptyDir == [kind |-> "empty", docs |-> <<>>, ntotal |-> 0]

CorruptDir == [kind |-> "corrupt", docs |-> <<>>, ntotal |-> 0]

\* FAISS.save_local: the index and its docstore
SavedDir(store) == [kind |-> "saved", docs |-> store.docs, ntotal |-> store.ntotal]

\* FAISS.load_local on what save_local wrote
LoadLocal(dir) == [isNone |-> FALSE, docs |-> dir.docs, ntotal |-> dir.ntotal]

\* os.path.exists(vector_store_path) and os.listdir(vector_store_path)
HasFiles(dir) == dir.kind \in {"corrupt", "saved"}

(***************************************************************************)
(* KnowledgeBase._load_or_create_vector_store, run by the constructor     *)
(* with vector_store = None.  loadOk: whether FAISS.load_local reads a    *)
(* saved directory without raising (it never reads a corrupt one).         *)
(***************************************************************************)
\* a variant that does not delete the document the fresh index is seeded with
load_keeps_placeholder(dir, loadOk) ==
    LET loaded == IF HasFiles(dir) /\ dir.kind = "saved" /\ loadOk
                  THEN LoadLocal(dir) ELSE NoneStore
    IN  IF loaded.isNone THEN FromTexts(<<Placeholder>>) ELSE loaded

load_or_create_vector_store(dir, loadOk) ==
    LET loaded == IF HasFiles(dir)
                  THEN (IF dir.kind = "saved" /\ loadOk THEN LoadLocal(dir) ELSE NoneStore)
                  ELSE NoneStore
    IN  IF loaded.isNone
        THEN LET fresh == FromTexts(<<Placeholder>>)
             IN  StoreDelete(fresh, {1})
        ELSE loaded

(***************************************************************************)
(* FAISS.similarity_search_with_score(query, k): the k nearest documents,  *)
(* nearest first.  The order among documents at the same distance is the   *)
(* index's business, so every order is a possible answer: the operator     *)
(* gives the set of answers, each a sequence of positions in store.docs.   *)
(***************************************************************************)
Min(a, b) == IF a <= b THEN a ELSE b

Nearest(store, query, k) ==
    LET n == Len(store.docs)
        m == Min(k, n)
        D(p) == Distance(query, store.docs[p].page_content)
    IN  {r \in [1..m -> 1..n] :
            /\ \A i, j \in 1..m : i < j => r[i] # r[j] /\ D(r[i]) <= D(r[j])
            /\ \A p \in 1..n : (\A i \in 1..m : r[i] # p) => \A i \in 1..m : D(r[i]) <= D(p)}

\* a variant without the factor 10: 1.0 - score_threshold
max_allowed_unscaled(score_threshold) == (10 - score_threshold) \div 10

\* (1.0 - score_threshold) * 10, with score_threshold in tenths
max_allowed(score_threshold) == 10 - score_threshold

(***************************************************************************)
(* KnowledgeBase.search.  A result is the (doc, score) pair; kb and idx    *)
(* say which Document object it is (the collection and the position the    *)
(* object has there).  failed: the embedding of the query or the index     *)
(* search raised, which the except clause turns into [].  The operator     *)
(* gives the set of possible outcomes of the call.                         *)
(***************************************************************************)
Hit(kb_name, store, query, p) ==
    [doc |-> store.docs[p], score |-> Distance(query, store.docs[p].page_content),
     kb |-> kb_name, idx |-> p]

\* what a call gives its caller: a returned list, or an exception
Return(results) == [raised |-> FALSE, results |-> results]

Raise == [raised |-> TRUE, results |-> <<>>]

\* a variant without the except clause
search_reraises(kb_name, store, query, top_k, score_threshold, failed) ==
    IF failed THEN {Raise}
    ELSE {Return(SelectSeq([i \in 1..Len(r) |-> Hit(kb_name, store, query, r[i])],
                           LAMBDA h : h.score <= max_allowed(score_threshold))) :
            r \in Nearest(store, query, top_k)}

search(kb_name, store, query, top_k, score_threshold, failed) ==
    IF failed THEN {Return(<<>>)}
    ELSE {Return(SelectSeq([i \in 1..Len(r) |-> Hit(kb_name, store, query, r[i])],
                           LAMBDA h : h.score <= max_allowed(score_threshold))) :
            r \in Nearest(store, query, top_k)}

(***************************************************************************)
(* list.sort(key=lambda x: x[1]): a stable sort, ascending by score.       *)
(***************************************************************************)
RECURSIVE InsertByScore(_, _)
InsertByScore(sorted, h) ==
    IF sorted = <<>> THEN <<h>>
    ELSE IF Head(sorted).score <= h.score
         THEN <<Head(sorted)>> \o InsertByScore(Tail(sorted), h)
         ELSE <<h>> \o sorted

\* a variant that leaves the list in the order of the collections
NoSort(results) == results

RECURSIVE SortByScore(_)
SortByScore(results) ==
    IF results = <<>> THEN <<>>
    ELSE InsertByScore(SortByScore(SubSeq(results, 1, Len(results) - 1)),
                       results[Len(results)])

\* results[:top_k], for top_k >= 0
Take(results, top_k) == SubSeq(results, 1, Min(top_k, Len(results)))

(***************************************************************************)
(* KnowledgeBaseManager.  The registry is the dict knowledge_bases: kbs is *)
(* the map, keys its insertion order (the order values() iterates in).     *)
(* A KnowledgeBase object is [kb_name, inst, vector_store]; inst tells its *)
(* identity: the constructor calls of the process are numbered.            *)
(***************************************************************************)
\* if kb_name:
Truthy(kb_name) == kb_name # None /\ kb_name # ""

\* the outcome of search_knowledge, and the collections whose search it called
Searched(outcome, names) ==
    [raised |-> outcome.raised, results |-> outcome.results, searched |-> names]

RECURSIVE all_results(_, _, _, _, _, _, _)
all_results(kbs, keys, i, query, top_k, score_threshold, failing) ==
    IF i > Len(keys) THEN {Return(<<>>)}
    ELSE {IF a.raised \/ b.raised THEN Raise ELSE Return(a.results \o b.results) :
            a \in search(keys[i], kbs[keys[i]].vector_store, query, top_k,
                         score_threshold, keys[i] \in failing),
            b \in all_results(kbs, keys, i + 1, query, top_k, score_threshold, failing)}

search_knowledge(kbs, keys, query, kb_name, top_k, score_threshold, failing) ==
    IF Truthy(kb_name)
    THEN IF kb_name \in DOMAIN kbs
         THEN {Searched(o, {kb_name}) :
                 o \in search(kb_name, kbs[kb_name].vector_store, query, top_k,
                              score_threshold, kb_name \in failing)}
         ELSE {Searched(Return(<<>>), {})}
    ELSE {Searched(IF c.raised THEN Raise
                   ELSE Return(Take(SortByScore(c.results), top_k)),
                   {keys[i] : i \in 1..Len(keys)}) :
            c \in all_results(kbs, keys, 1, query, top_k, score_threshold, failing)}

(***************************************************************************)
(* The string search_diagnosis_knowledge builds, as its parts: the fixed   *)
(* sentence when there is no result, else the count and one item for each  *)
(* result, with its 1-based number, 1 - score, the metadata lines present  *)
(* and the content.                                                        *)
(***************************************************************************)
MetadataLines(metadata) ==
    IF DOMAIN metadata = {} THEN <<>>
    ELSE (IF "source" \in DOMAIN metadata THEN <<<<"source", metadata["source"]>>>> ELSE <<>>)
         \o (IF "desc" \in DOMAIN metadata THEN <<<<"desc", metadata["desc"]>>>> ELSE <<>>)

NotFound(query) == [found |-> FALSE, query |-> query, count |-> 0, items |-> <<>>]

format_results(query, results) ==
    IF results = <<>> THEN NotFound(query)
    ELSE [found |-> TRUE, query |-> query, count |-> Len(results),
          items |-> [i \in 1..Len(results) |->
                       [idx |-> i, similarity |-> 1 - results[i].score,
                        lines |-> MetadataLines(results[i].doc.metadata),
                        content |-> results[i].doc.page_content]]]

\* a variant that compares expert_type with "all" without lower-casing it
facade_case_sensitive(expert_type) ==
    IF expert_type = S_all THEN None ELSE match_knowledge_base(expert_type)

\* the kb_name search_diagnosis_knowledge searches with
facade_kb_name(expert_type) ==
    IF Lower(expert_type) = S_all THEN None ELSE match_knowledge_base(expert_type)

(***************************************************************************)
(* State.                                                                  *)
(***************************************************************************)
VARIABLES
    kb_manager,      \* the global _kb_manager: None, or "Manager" once constructed
    knowledge_bases, \* _kb_manager.knowledge_bases: kb_name -> KnowledgeBase
    kb_keys,         \* the insertion order of knowledge_bases
    disk,            \* kb_name -> the vector_store directory under its kb_path
    constructed,     \* the number of KnowledgeBase objects constructed so far
    created_with,    \* history: kb_name -> the directory its constructor found,
                     \* whether load_local read it, and the documents it then held
    inserted,        \* history: kb_name -> the documents inserted since, in order
    last             \* the last call: its arguments and what it gave the caller

vars == <<kb_manager, knowledge_bases, kb_keys, disk, constructed, created_with,
          inserted, last>>

\* the registry and its history, as one value
Registry ==
    [kbs |-> knowledge_bases, keys |-> kb_keys, constructed |-> constructed,
     created_with |-> created_with, inserted |-> inserted]

NoKeys == [k \in {} |-> <<>>]

EmptyRegistry(n) ==
    [kbs |-> NoKeys, keys |-> <<>>, constructed |-> n,
     created_with |-> NoKeys, inserted |-> NoKeys]

Extend(f, k, v) == [x \in DOMAIN f \cup {k} |-> IF x = k THEN v ELSE f[x]]

\* KnowledgeBase.__init__
KnowledgeBase(kb_name, inst, dir, loadOk) ==
    [kb_name |-> kb_name, inst |-> inst,
     vector_store |-> load_or_create_vector_store(dir, loadOk)]

\* a variant that constructs a KnowledgeBase on every call
get_or_create_always_constructs(reg, kb_name, dir, loadOk) ==
    LET kb == KnowledgeBase(kb_name, reg.constructed + 1, dir, loadOk)
    IN  [kbs |-> Extend(reg.kbs, kb_name, kb),
         keys |-> IF kb_name \in DOMAIN reg.kbs THEN reg.keys
                  ELSE Append(reg.keys, kb_name),
         constructed |-> reg.constructed + 1,
         created_with |-> Extend(reg.created_with, kb_name,
                             [dir |-> dir, load_ok |-> dir.kind = "saved" /\ loadOk,
                              docs |-> kb.vector_store.docs]),
         inserted |-> Extend(reg.inserted, kb_name, <<>>)]

\* KnowledgeBaseManager.get_or_create_kb: the registry after the call (the
\* call returns kbs[kb_name] of it)
get_or_create_kb(reg, kb_name, dir, loadOk) ==
    IF kb_name \notin DOMAIN reg.kbs
    THEN LET kb == KnowledgeBase(kb_name, reg.constructed + 1, dir, loadOk)
         IN  [kbs |-> Extend(reg.kbs, kb_name, kb),
              keys |-> Append(reg.keys, kb_name),
              constructed |-> reg.constructed + 1,
              created_with |-> Extend(reg.created_with, kb_name,
                                  [dir |-> dir, load_ok |-> dir.kind = "saved" /\ loadOk,
                                   docs |-> kb.vector_store.docs]),
              inserted |-> Extend(reg.inserted, kb_name, <<>>)]
    ELSE reg

\* KnowledgeBaseManager._init_default_knowledge_bases, from default_kbs[i] on
RECURSIVE init_default_knowledge_bases(_, _, _, _)
init_default_knowledge_bases(reg, i, dirs, loadOk) ==
    IF i > Len(default_kbs) THEN reg
    ELSE init_default_knowledge_bases(
             get_or_create_kb(reg, default_kbs[i], dirs[default_kbs[i]], loadOk),
             i + 1, dirs, loadOk)

\* get_kb_manager: the registry of the global manager after the call
get_kb_manager(manager, reg, dirs, loadOk) ==
    IF manager = None
    THEN init_default_knowledge_bases(EmptyRegistry(reg.constructed), 1, dirs, loadOk)
    ELSE reg

SetRegistry(reg) ==
    /\ knowledge_bases' = reg.kbs
    /\ kb_keys' = reg.keys
    /\ constructed' = reg.constructed
    /\ created_with' = reg.created_with
    /\ inserted' = reg.inserted

(***************************************************************************)
(* The inputs the calls are made with.                                     *)
(***************************************************************************)
\* the longest list given to add_documents / add_texts
MaxBatch == 2

SeqsUpTo(S, n) == UNION {[1..m -> S] : m \in 0..n}

DocBatches == SeqsUpTo(Documents, MaxBatch)

\* the (texts, metadatas) add_texts is called with; has = FALSE: metadatas
\* is None.  The last two have fewer metadatas than texts.
TextsInputs ==
    {[texts |-> <<>>, has |-> FALSE, metadatas |-> <<>>],
     [texts |-> <<"a">>, has |-> FALSE, metadatas |-> <<>>],
     [texts |-> <<"b">>, has |-> TRUE, metadatas |-> <<FullMeta>>],
     [texts |-> <<"a", "b">>, has |-> TRUE, metadatas |-> <<EmptyMeta, FullMeta>>],
     [texts |-> <<"a", "b">>, has |-> TRUE, metadatas |-> <<EmptyMeta>>],
     [texts |-> <<"b">>, has |-> TRUE, metadatas |-> <<>>]}

TopKs == 1..MaxTopK

\* score_threshold, in tenths: 0.6 and 1.0
ScoreThresholds == {6, 10}

\* expert_type labels given to match_knowledge_base
Labels ==
    {<<"n", "a", "m", "e", "n", "o", "d", "e">>,
     <<"N", "a", "m", "e", "N", "o", "d", "e">>, <<"N", "N">>,
     <<"d", "a", "t", "a", "n", "o", "d", "e">>, <<"D", "N">>, <<"d", "n", "n">>,
     <<"y", "a", "r", "n">>, <<"Y", "A", "R", "N">>,
     <<"y", "a", "r", "n", "-", "d", "n">>,
     <<"y", "a", "r", "n", "-", "n", "a", "m", "e", "n", "o", "d", "e">>,
     <<"a", "l", "l">>, <<"A", "l", "L">>, <<"a", "l", "l", "-", "n", "n">>,
     <<"h", "a", "d", "o", "o", "p">>, <<>>}

\* expert_type labels given to search_diagnosis_knowledge
FacadeLabels ==
    {<<"n", "a", "m", "e", "n", "o", "d", "e">>, <<"D", "N">>, <<"y", "a", "r", "n">>,
     <<"h", "a", "d", "o", "o", "p">>, <<"a", "l", "l">>, <<"A", "l", "L">>}

\* the directories a collection can find at its storage path
StartDirs ==
    {MissingDir, EmptyDir, CorruptDir, SavedDir(EmptyStore),
     SavedDir(StoreAdd(EmptyStore, <<Document("b", FullMeta)>>))}

\* the collections whose directory may hold something when the process starts
PreloadNames == {"NameNodeExpert", "Custom"}

\* the collections documents are added to
AddNames == {"NameNodeExpert", "DataNodeExpert"}

\* the collections KnowledgeBase.search is called on directly
SearchNames == {"NameNodeExpert", "DataNodeExpert", "Custom"}

\* the kb_name search_knowledge is called with
KbNameInputs == {None, "", "NameNodeExpert", "DataNodeExpert", "Custom"}

RECURSIVE TotalDocs(_, _, _)
TotalDocs(kbs, keys, i) ==
    IF i > Len(keys) THEN 0
    ELSE Len(kbs[keys[i]].vector_store.docs) + TotalDocs(kbs, keys, i + 1)

KeySet(keys) == {keys[i] : i \in 1..Len(keys)}

\* which collections' search raises inside: none, one that may hold
\* documents, or all
FailSets(keys) == {{}, KeySet(keys)} \cup {{n} : n \in KeySet(keys) \cap SearchNames}

(***************************************************************************)
(* KnowledgeBase.save, add_documents and add_texts: the possible outcomes  *)
(* of a call on a collection with this vector_store and this directory.    *)
(***************************************************************************)
\* the directory after a save that raised: os.makedirs raised (nothing
\* changed), save_local raised before it wrote (the directory exists), or
\* after it wrote a part
SaveFailures(dir) ==
    {dir, IF dir.kind = "missing" THEN EmptyDir ELSE dir, CorruptDir}

Outcome(raised, store, dir, ins) ==
    [raised |-> raised, vector_store |-> store, dir |-> dir, inserted |-> ins]

save(store, dir) ==
    {Outcome(FALSE, store, SavedDir(store), <<>>)}
    \cup {Outcome(TRUE, store, d, <<>>) : d \in SaveFailures(dir)}

\* a variant that catches what save raises and returns normally
add_documents_swallows(store, dir, documents) ==
    IF documents = <<>> THEN {Outcome(FALSE, store, dir, <<>>)}
    ELSE {Outcome(TRUE, store, dir, <<>>)}
         \cup {Outcome(FALSE, o.vector_store, o.dir, documents) :
                 o \in save(StoreAdd(store, documents), dir)}

add_documents(store, dir, documents) ==
    IF documents = <<>> THEN {Outcome(FALSE, store, dir, <<>>)}
    ELSE \* vector_store.add_documents raised while embedding: nothing inserted
         {Outcome(TRUE, store, dir, <<>>)}
         \cup {Outcome(o.raised, o.vector_store, o.dir, documents) :
                 o \in save(StoreAdd(store, documents), dir)}

\* zip(texts, metadatas)
Zip(texts, metadatas) ==
    [i \in 1..Min(Len(texts), Len(metadatas)) |-> Document(texts[i], metadatas[i])]

\* hasMetadatas = FALSE: metadatas is None
add_texts(store, dir, texts, hasMetadatas, metadatas) ==
    IF texts = <<>> THEN {Outcome(FALSE, store, dir, <<>>)}
    ELSE add_documents(store, dir,
             Zip(texts, IF hasMetadatas THEN metadatas
                        ELSE [i \in 1..Len(texts) |-> EmptyMeta]))

(***************************************************************************)
(* The record of a call.                                                   *)
(***************************************************************************)
NoCall ==
    [op |-> "none", kb_name |-> None, expert_type |-> <<>>, query |-> "",
     top_k |-> 0, score_threshold |-> 0, documents |-> <<>>, failing |-> {},
     raised |-> FALSE, results |-> <<>>, searched |-> {}, matched |-> None,
     output |-> NotFound(""), returned |-> 0]

\* the calls are made one after the other by a single thread: a call starts
\* when the caller has taken the result of the one before
Idle == last = NoCall

\* the process has imported the module: no manager yet, and the directory of
\* one collection is one of dirs (the others are missing)
InitWith(names, dirs) ==
    /\ kb_manager = None
    /\ knowledge_bases = NoKeys
    /\ kb_keys = <<>>
    /\ \E n \in names, d \in dirs :
          disk = [k \in KbNames |-> IF k = n THEN d ELSE MissingDir]
    /\ constructed = 0
    /\ created_with = NoKeys
    /\ inserted = NoKeys
    /\ last = NoCall

Init ==
    InitWith({"NameNodeExpert"},
             {MissingDir, SavedDir(StoreAdd(EmptyStore, <<Document("b", FullMeta)>>))})

InitStore == InitWith(PreloadNames, StartDirs)

(***************************************************************************)
(* get_kb_manager()                                                        *)
(***************************************************************************)
GetKbManager ==
    \E loadOk \in BOOLEAN :
       /\ Idle
       /\ SetRegistry(get_kb_manager(kb_manager, Registry, disk, loadOk))
       /\ kb_manager' = "Manager"
       /\ last' = [NoCall EXCEPT !.op = "get_kb_manager"]
       /\ UNCHANGED disk

(***************************************************************************)
(* kb_manager.get_or_create_kb(kb_name)                                    *)
(***************************************************************************)
GetOrCreateKb ==
    /\ Idle
    /\ kb_manager # None
    /\ \E kb_name \in KbNames, loadOk \in BOOLEAN :
          LET reg == get_or_create_kb(Registry, kb_name, disk[kb_name], loadOk)
          IN  /\ SetRegistry(reg)
              /\ last' = [NoCall EXCEPT !.op = "get_or_create_kb", !.kb_name = kb_name,
                                        !.returned = reg.kbs[kb_name].inst]
    /\ UNCHANGED <<kb_manager, disk>>

(***************************************************************************)
(* kb.add_documents(documents), kb.add_texts(texts, metadatas) and         *)
(* kb.save() on a registered collection                                    *)
(***************************************************************************)
Apply(op, kb_name, documents, o) ==
    /\ Idle
    /\ knowledge_bases' =
          [knowledge_bases EXCEPT ![kb_name].vector_store = o.vector_store]
    /\ disk' = [disk EXCEPT ![kb_name] = o.dir]
    /\ inserted' = [inserted EXCEPT ![kb_name] = @ \o o.inserted]
    /\ last' = [NoCall EXCEPT !.op = op, !.kb_name = kb_name, !.documents = documents,
                              !.raised = o.raised]
    /\ UNCHANGED <<kb_manager, kb_keys, constructed, created_with>>

AddDocuments ==
    \E kb_name \in DOMAIN knowledge_bases \cap AddNames, documents \in DocBatches :
       /\ TotalDocs(knowledge_bases, kb_keys, 1) + Len(documents) <= MaxTotalDocs
       /\ \E o \in add_documents(knowledge_bases[kb_name].vector_store,
                                 disk[kb_name], documents) :
             Apply("add_documents", kb_name, documents, o)

AddTexts ==
    \E kb_name \in DOMAIN knowledge_bases \cap AddNames, in \in TextsInputs :
       /\ TotalDocs(knowledge_bases, kb_keys, 1) + Len(in.texts) <= MaxTotalDocs
       /\ \E o \in add_texts(knowledge_bases[kb_name].vector_store, disk[kb_name],
                             in.texts, in.has, in.metadatas) :
             Apply("add_texts", kb_name,
                   Zip(in.texts, IF in.has THEN in.metadatas
                                 ELSE [i \in 1..Len(in.texts) |-> EmptyMeta]), o)

Save ==
    \E kb_name \in DOMAIN knowledge_bases \cap AddNames :
       \E o \in save(knowledge_bases[kb_name].vector_store, disk[kb_name]) :
          Apply("save", kb_name, <<>>, o)

(***************************************************************************)
(* kb.search, kb_manager.search_knowledge, kb_manager.match_knowledge_base *)
(* and search_diagnosis_knowledge                                          *)
(***************************************************************************)
Search ==
    /\ Idle
    /\ \E kb_name \in DOMAIN knowledge_bases \cap SearchNames, query \in Queries,
          top_k \in TopKs, score_threshold \in ScoreThresholds, failed \in BOOLEAN :
          \E o \in search(kb_name, knowledge_bases[kb_name].vector_store, query,
                          top_k, score_threshold, failed) :
             last' = [NoCall EXCEPT !.op = "search", !.kb_name = kb_name,
                         !.query = query, !.top_k = top_k,
                         !.score_threshold = score_threshold,
                         !.failing = IF failed THEN {kb_name} ELSE {},
                         !.raised = o.raised, !.results = o.results,
                         !.searched = {kb_name}]
    /\ UNCHANGED <<kb_manager, knowledge_bases, kb_keys, disk, constructed,
                   created_with, inserted>>

SearchKnowledge ==
    /\ Idle
    /\ kb_manager # None
    /\ \E kb_name \in KbNameInputs, query \in Queries, top_k \in TopKs,
          score_threshold \in ScoreThresholds :
          \E failing \in (IF Truthy(kb_name) THEN {{}, {kb_name}} ELSE FailSets(kb_keys)) :
          \E o \in search_knowledge(knowledge_bases, kb_keys, query, kb_name, top_k,
                                    score_threshold, failing) :
             last' = [NoCall EXCEPT !.op = "search_knowledge", !.kb_name = kb_name,
                         !.query = query, !.top_k = top_k,
                         !.score_threshold = score_threshold, !.failing = failing,
                         !.raised = o.raised, !.results = o.results,
                         !.searched = o.searched]
    /\ UNCHANGED <<kb_manager, knowledge_bases, kb_keys, disk, constructed,
                   created_with, inserted>>

MatchKnowledgeBase ==
    /\ Idle
    /\ kb_manager # None
    /\ \E expert_type \in Labels :
          last' = [NoCall EXCEPT !.op = "match_knowledge_base",
                      !.expert_type = expert_type,
                      !.matched = match_knowledge_base(expert_type)]
    /\ UNCHANGED <<kb_manager, knowledge_bases, kb_keys, disk, constructed,
                   created_with, inserted>>

SearchDiagnosisKnowledge ==
    \E expert_type \in FacadeLabels, query \in Queries, top_k \in TopKs,
       score_threshold \in ScoreThresholds, loadOk \in BOOLEAN :
       LET reg == get_kb_manager(kb_manager, Registry, disk, loadOk)
           kb_name == facade_kb_name(expert_type)
       IN  /\ Idle
           /\ SetRegistry(reg)
           /\ kb_manager' = "Manager"
           /\ \E failing \in (IF Truthy(kb_name) THEN {{}, {kb_name}}
                                ELSE FailSets(reg.keys)) :
                 \E o \in search_knowledge(reg.kbs, reg.keys, query, kb_name, top_k,
                                           score_threshold, failing) :
                    last' = [NoCall EXCEPT !.op = "search_diagnosis_knowledge",
                                !.expert_type = expert_type, !.kb_name = kb_name,
                                !.query = query, !.top_k = top_k,
                                !.score_threshold = score_threshold,
                                !.failing = failing, !.raised = o.raised,
                                !.results = o.results, !.searched = o.searched,
                                !.output = format_results(query, o.results)]
           /\ UNCHANGED disk

\* the caller takes the result of the call
ReturnToCaller ==
    /\ ~Idle
    /\ last' = NoCall
    /\ UNCHANGED <<kb_manager, knowledge_bases, kb_keys, disk, constructed,
                   created_with, inserted>>

(***************************************************************************)
(* Two environments.  In Spec every call is made and the storage is        *)
(* reliable: no save raises.  In SpecStore the storage may fail and the    *)
(* calls are those that construct, change or persist a collection (the     *)
(* searches change no state).                                              *)
(***************************************************************************)
AddDocumentsSaved == AddDocuments /\ ~last'.raised

AddTextsSaved == AddTexts /\ ~last'.raised

SaveSaved == Save /\ ~last'.raised

Next ==
    \/ GetKbManager
    \/ GetOrCreateKb
    \/ AddDocumentsSaved
    \/ AddTextsSaved
    \/ SaveSaved
    \/ Search
    \/ SearchKnowledge
    \/ MatchKnowledgeBase
    \/ SearchDiagnosisKnowledge
    \/ ReturnToCaller

Spec == Init /\ [][Next]_vars

NextStore ==
    \/ GetKbManager
    \/ GetOrCreateKb
    \/ AddDocuments
    \/ AddTexts
    \/ Save
    \/ ReturnToCaller

SpecStore == InitStore /\ [][NextStore]_vars

(***************************************************************************)
(* Properties.                                                             *)
(***************************************************************************)
Range(seq) == {seq[i] : i \in 1..Len(seq)}

Docs(kb_name) == knowledge_bases[kb_name].vector_store.docs

SearchOps == {"search", "search_knowledge", "search_diagnosis_knowledge"}

\* C1: search_diagnosis_knowledge searches every registered collection when
\* expert_type lower-cased is "all" (kb_name None); otherwise it searches
\* exactly the collection match_knowledge_base(expert_type) names, and every
\* result, and every item of the output, is a document of that collection.
C1_FacadeSearchesOneOrAll ==
    last.op = "search_diagnosis_knowledge" =>
       IF Lower(last.expert_type) = S_all
       THEN /\ last.kb_name = None
            /\ last.searched = KeySet(kb_keys)
       ELSE LET name == match_knowledge_base(last.expert_type)
            IN  /\ name \in DOMAIN knowledge_bases
                /\ last.searched = {name}
                /\ last.output.count = Len(last.results)
                /\ \A i \in 1..Len(last.results) :
                      LET h == last.results[i]
                      IN  /\ h.kb = name
                          /\ h.idx \in 1..Len(Docs(name))
                          /\ h.doc = Docs(name)[h.idx]
                          /\ last.output.items[i].content = Docs(name)[h.idx].page_content

\* C1 witness: expert_type "namenode" found documents of NameNodeExpert while
\* DataNodeExpert holds documents too
C1_Witness ==
    /\ last.op = "search_diagnosis_knowledge"
    /\ Lower(last.expert_type) = S_namenode
    /\ last.results # <<>>
    /\ Docs("DataNodeExpert") # <<>>

\* the results are distinct elements of c, as many as top_k allows, and no
\* element of c left out has a smaller score than one taken
TopOf(results, c, top_k) ==
    LET R == Range(results)
        C == Range(c)
    IN  /\ Cardinality(R) = Len(results)
        /\ R \subseteq C
        /\ Len(results) = Min(top_k, Len(c))
        /\ \A x \in C \ R, y \in R : y.score <= x.score

\* C2: search_knowledge with kb_name None calls the search of every
\* registered collection; its result is sorted ascending by score, has at
\* most top_k elements, and is the top_k smallest of the concatenation of
\* the collections' own results.
C2_AllSearchSortedTopK ==
    (last.op = "search_knowledge" /\ last.kb_name = None) =>
       /\ last.searched = KeySet(kb_keys)
       /\ \A i, j \in 1..Len(last.results) :
             i < j => last.results[i].score <= last.results[j].score
       /\ Len(last.results) <= last.top_k
       /\ \E c \in all_results(knowledge_bases, kb_keys, 1, last.query, last.top_k,
                               last.score_threshold, last.failing) :
             TopOf(last.results, c.results, last.top_k)

\* C2 witness: two collections gave results, more than top_k together, and
\* the nearest one is not the first of the concatenation
C2_Witness ==
    /\ last.op = "search_knowledge"
    /\ last.kb_name = None
    /\ last.results # <<>>
    /\ \E c \in all_results(knowledge_bases, kb_keys, 1, last.query, last.top_k,
                            last.score_threshold, last.failing) :
          /\ Len(c.results) > last.top_k
          /\ \E i, j \in 1..Len(c.results) : c.results[i].kb # c.results[j].kb
          /\ c.results[1].score > last.results[1].score

\* C3: search_knowledge with a kb_name that is given (not None) and is not a
\* key of knowledge_bases returns an empty list, raises nothing and calls the
\* search of no collection.
C3_UnknownNameGivesEmpty ==
    (/\ last.op = "search_knowledge"
     /\ last.kb_name # None
     /\ last.kb_name \notin DOMAIN knowledge_bases) =>
       /\ ~last.raised
       /\ last.results = <<>>
       /\ last.searched = {}

\* the same for a kb_name that is not the empty string
C3_NonEmptyUnknownNameGivesEmpty ==
    (/\ last.op = "search_knowledge"
     /\ Truthy(last.kb_name)
     /\ last.kb_name \notin DOMAIN knowledge_bases) =>
       /\ ~last.raised
       /\ last.results = <<>>
       /\ last.searched = {}

\* the registry with the collections of `failing` holding nothing
Silenced(kbs, failing) ==
    [n \in DOMAIN kbs |->
        IF n \in failing THEN [kbs[n] EXCEPT !.vector_store = EmptyStore] ELSE kbs[n]]

\* C4: no search call raises.  A KnowledgeBase.search whose embedding or
\* index search fails returns []; in search_knowledge and
\* search_diagnosis_knowledge a failing collection contributes nothing and
\* the result is the one the other collections give; when every searched
\* collection fails search_diagnosis_knowledge returns the "not found"
\* sentence.
C4_RetrievalNeverRaises ==
    /\ last.op \in SearchOps => ~last.raised
    /\ (last.op = "search" /\ last.failing # {}) => last.results = <<>>
    /\ last.op \in {"search_knowledge", "search_diagnosis_knowledge"} =>
          /\ \A i \in 1..Len(last.results) : last.results[i].kb \notin last.failing
          /\ \E o \in search_knowledge(Silenced(knowledge_bases, last.failing), kb_keys,
                                       last.query, last.kb_name, last.top_k,
                                       last.score_threshold, {}) :
                o.results = last.results
    /\ (last.op = "search_diagnosis_knowledge" /\ last.searched \subseteq last.failing)
          => last.output = NotFound(last.query)

\* C4 witness: a search of all collections in which one collection that holds
\* a document near enough fails and another one gives a result
C4_Witness ==
    /\ last.op = "search_knowledge"
    /\ last.kb_name = None
    /\ last.results # <<>>
    /\ \E n \in last.failing :
          /\ last.failing = {n}
          /\ \E p \in 1..Len(Docs(n)) :
                Distance(last.query, Docs(n)[p].page_content) <= 10 - last.score_threshold

\* the rules of match_knowledge_base, on the lower-cased label
MatchRules(expert_type, matched) ==
    LET lower == Lower(expert_type)
        namenode == Contains(lower, S_namenode) \/ Contains(lower, S_nn)
        datanode == Contains(lower, S_datanode) \/ Contains(lower, S_dn)
        yarn == Contains(lower, S_yarn)
    IN  /\ namenode => matched = "NameNodeExpert"
        /\ (~namenode /\ datanode) => matched = "DataNodeExpert"
        /\ (~namenode /\ ~datanode /\ yarn) => matched = "YARNExpert"
        /\ (~namenode /\ ~datanode /\ ~yarn) => matched = "HistoryCases"
        /\ \A other \in Labels :
              Lower(other) = lower => match_knowledge_base(other) = matched

\* C7: match_knowledge_base gives, for every label, the name of the first
\* rule its lower-cased form matches (namenode/nn, then datanode/dn, then
\* yarn), HistoryCases when none does, the same name for labels with the
\* same lower-cased form, and the call changes nothing of the registry.
C7_MatchFirstRuleWins ==
    [][last'.op = "match_knowledge_base" =>
          /\ MatchRules(last'.expert_type, last'.matched)
          /\ UNCHANGED <<kb_manager, knowledge_bases, kb_keys, disk, constructed>>]_vars

\* C7 witness: a label with a later rule's keyword (yarn) and namenode
C7_Witness ==
    /\ last.op = "match_knowledge_base"
    /\ Contains(Lower(last.expert_type), S_yarn)
    /\ Contains(Lower(last.expert_type), S_namenode)
    /\ last.matched = "NameNodeExpert"

\* C8: the registry holds one collection for each name; no step removes a
\* key or replaces the KnowledgeBase object of a name; get_or_create_kb of a
\* registered name constructs nothing, changes nothing and returns the
\* object registered (so what was added to it is there); and once the
\* manager exists the five default names are registered.
C8_GetOrCreateIdempotent ==
    [][/\ DOMAIN knowledge_bases \subseteq DOMAIN knowledge_bases'
       /\ \A n \in DOMAIN knowledge_bases :
             knowledge_bases'[n].inst = knowledge_bases[n].inst
       /\ KeySet(kb_keys') = DOMAIN knowledge_bases'
       /\ Cardinality(KeySet(kb_keys')) = Len(kb_keys')
       /\ \A n, m \in DOMAIN knowledge_bases' :
             knowledge_bases'[n].inst = knowledge_bases'[m].inst => n = m
       /\ (last'.op = "get_or_create_kb" /\ last'.kb_name \in DOMAIN knowledge_bases) =>
             /\ constructed' = constructed
             /\ knowledge_bases' = knowledge_bases
             /\ last'.returned = knowledge_bases[last'.kb_name].inst
       /\ (last'.op = "get_or_create_kb" /\ last'.kb_name \notin DOMAIN knowledge_bases) =>
             /\ constructed' = constructed + 1
             /\ last'.returned = knowledge_bases'[last'.kb_name].inst
       /\ kb_manager' # None => DefaultNames \subseteq DOMAIN knowledge_bases'
      ]_vars

\* C8 witness: get_or_create_kb of a collection documents were added to
C8_Witness ==
    /\ last.op = "get_or_create_kb"
    /\ last.kb_name \in DOMAIN inserted
    /\ inserted[last.kb_name] # <<>>
    /\ last.returned = knowledge_bases[last.kb_name].inst
    /\ "Custom" \in DOMAIN knowledge_bases

\* positions is a subsequence of r
RECURSIVE IsSubSeq(_, _)
IsSubSeq(positions, r) ==
    IF positions = <<>> THEN TRUE
    ELSE IF r = <<>> THEN FALSE
    ELSE IF Head(positions) = Head(r) THEN IsSubSeq(Tail(positions), Tail(r))
    ELSE IsSubSeq(positions, Tail(r))

\* what C9 says of the call recorded in call, on the collection as it is in
\* the state kbs
SearchFilters(call, kbs) ==
    LET store == kbs[call.kb_name].vector_store
        bound == 10 - call.score_threshold
        positions == [i \in 1..Len(call.results) |-> call.results[i].idx]
    IN  /\ Len(call.results) <= call.top_k
        /\ \A i \in 1..Len(call.results) :
              /\ call.results[i].score <= bound
              /\ call.results[i].kb = call.kb_name
              /\ call.results[i].doc = store.docs[call.results[i].idx]
              /\ call.results[i].score =
                    Distance(call.query, store.docs[call.results[i].idx].page_content)
        /\ \E r \in Nearest(store, call.query, call.top_k) :
              /\ IsSubSeq(positions, r)
              /\ \A i \in 1..Len(r) :
                    Distance(call.query, store.docs[r[i]].page_content) <= bound
                       => r[i] \in Range(positions)

\* C9: a KnowledgeBase.search that does not fail returns, in the order of
\* the index, exactly those of the top_k nearest documents whose distance is
\* at most (1 - score_threshold) * 10, so at most top_k of them; and a
\* search changes neither the collections nor what is persisted.
C9_SearchFiltersByDistance ==
    [][last'.op = "search" =>
          /\ last'.failing = {} => SearchFilters(last', knowledge_bases)
          /\ UNCHANGED <<knowledge_bases, kb_keys, disk>>]_vars

\* C9 witness: of two neighbours the search keeps one and drops the other
C9_Witness ==
    /\ last.op = "search"
    /\ last.failing = {}
    /\ last.top_k >= 2
    /\ Len(Docs(last.kb_name)) >= 2
    /\ Len(last.results) = 1

AddOps == {"add_documents", "add_texts"}

\* C5: when add_documents / add_texts with documents to add returns without
\* raising, the directory of the collection holds what save_local writes of
\* the collection as it is in memory, the added documents last; so whenever
\* the directory is not that after such a call, the call raised.
C5_AddReturnsOnlyWhenSaved ==
    (last.op \in AddOps /\ last.documents # <<>> /\ ~last.raised) =>
       LET store == knowledge_bases[last.kb_name].vector_store
           n == Len(store.docs)
       IN  /\ disk[last.kb_name] = SavedDir(store)
           /\ n >= Len(last.documents)
           /\ SubSeq(store.docs, n - Len(last.documents) + 1, n) = last.documents

\* C5 witness: documents were added, without raising, to a collection that
\* held documents and whose directory was not up to date
C5_Witness ==
    /\ last.op \in AddOps
    /\ last.documents # <<>>
    /\ ~last.raised
    /\ Len(Docs(last.kb_name)) > Len(last.documents)
    /\ created_with[last.kb_name].dir.kind = "saved"
    /\ ~created_with[last.kb_name].load_ok

\* C6: a constructed KnowledgeBase has a vector store.  Until documents are
\* inserted it holds exactly the documents of the directory its constructor
\* found when that was a saved one and load_local read it, and nothing at
\* all otherwise (directory missing, empty, or not loadable): no document,
\* no vector, and no search finds anything in it.
C6_ConstructedLoadedOrEmpty ==
    \A n \in DOMAIN knowledge_bases :
       LET store == knowledge_bases[n].vector_store
           c == created_with[n]
       IN  /\ ~store.isNone
           /\ inserted[n] = <<>> =>
                 IF c.dir.kind = "saved" /\ c.load_ok
                 THEN store.docs = c.dir.docs /\ store.ntotal = c.dir.ntotal
                 ELSE /\ store.docs = <<>>
                      /\ store.ntotal = 0
                      /\ \A query \in Queries, top_k \in TopKs,
                            score_threshold \in ScoreThresholds :
                            search(n, store, query, top_k, score_threshold, FALSE)
                               = {Return(<<>>)}

\* C6 witness: collections constructed on a directory that does not load and
\* on one that does
C6_Witness ==
    /\ \E n \in DOMAIN knowledge_bases :
          /\ created_with[n].dir.kind \in {"corrupt", "empty"}
          /\ Docs(n) = <<>>
    /\ "Custom" \in DOMAIN knowledge_bases

IsPrefix(s, t) == Len(s) <= Len(t) /\ SubSeq(t, 1, Len(s)) = s

\* C10: after every step each collection holds the documents it was
\* constructed with followed by the documents of the calls that inserted,
\* in call order and input order, with as many vectors as documents; no step
\* removes or rewrites a document; an add with nothing to add changes
\* neither the collection nor its directory; and an add changes no other
\* collection.
C10_AppendOnly ==
    [][/\ \A n \in DOMAIN knowledge_bases' :
             LET store == knowledge_bases'[n].vector_store
             IN  /\ store.docs = created_with'[n].docs \o inserted'[n]
                 /\ store.ntotal = Len(store.docs)
       /\ \A n \in DOMAIN knowledge_bases :
             /\ IsPrefix(Docs(n), knowledge_bases'[n].vector_store.docs)
             /\ created_with'[n] = created_with[n]
             /\ IsPrefix(inserted[n], inserted'[n])
       /\ last'.op \in AddOps =>
             /\ \A n \in DOMAIN knowledge_bases :
                   n # last'.kb_name => /\ knowledge_bases'[n] = knowledge_bases[n]
                                        /\ disk'[n] = disk[n]
             /\ last'.documents = <<>> =>
                   /\ ~last'.raised
                   /\ UNCHANGED <<knowledge_bases, disk, inserted>>
             /\ inserted'[last'.kb_name] \in
                   {inserted[last'.kb_name], inserted[last'.kb_name] \o last'.documents}
      ]_vars

\* C10 witness: a collection constructed with a document, among others, to
\* which one call added documents and the next had nothing to add
C10_Witness ==
    /\ last.op \in AddOps
    /\ last.documents = <<>>
    /\ created_with[last.kb_name].docs # <<>>
    /\ inserted[last.kb_name] # <<>>
    /\ Cardinality(DOMAIN knowledge_bases) > 1

====
